---- MODULE Spec2Model ----
(***************************************************************************)
(* TicTacToeAgent (src/tic_tac_toe_agent.py) as a state machine.           *)
(*                                                                         *)
(* A board is a function from the position keys to marks.  The key 'k' of  *)
(* the source is the integer k; the marks are the strings of the source    *)
(* (" " is an empty cell).  A dict is iterated in insertion order:         *)
(* KeyOrder is the order in which the board's keys were inserted.          *)
(*                                                                         *)
(* Scores are floats in the source: 10 / 10^(d-1) at depth d (at most 9),  *)
(* summed and then rounded to ROUND_DIGITS = 7 decimals before they are    *)
(* compared.  Every score is a whole multiple of 10^-7, and the error of a *)
(* float sum of fewer than 10^6 such terms is far below half of 10^-7, so  *)
(* the rounded sum is the exact sum.  The model therefore counts scores in *)
(* units of 10^-7: the integer s stands for the float s / 10^7.            *)
(*                                                                         *)
(* accuracy is a float in the source; the model holds it as a fraction     *)
(* [num, den] with den a power of two, for which free * accuracy is exact  *)
(* in floating point.                                                      *)
(***************************************************************************)
EXTENDS Integers, Sequences, FiniteSets, TLC

VARIABLES
    board,                  \* self.board
    agent_symbol,           \* self.agent_symbol
    opponent_symbol,        \* self.opponent_symbol
    accuracy,               \* self.accuracy, a fraction [num, den]
    RANDOM_INITIAL_MOVES,   \* the class flag TicTacToeAgent.RANDOM_INITIAL_MOVES
    maximum_branch_depth,   \* self.maximum_branch_depth
    limit_branch_depth,     \* self.limit_branch_depth
    last                    \* the last operation: its name, the board it began on, how it ended

vars == <<board, agent_symbol, opponent_symbol, accuracy, RANDOM_INITIAL_MOVES,
          maximum_branch_depth, limit_branch_depth, last>>

(***************************************************************************)
(* Bounds of the model.                                                    *)
(***************************************************************************)
\* Spec: the game is followed until the board holds this many marks.
MaxMarks == 3
\* SpecSearch: the boards handed to the constructor have at most this many empty cells.
MaxFree == 5
\* SpecGame: the same, for the boards of alternating play.
MaxGameFree == 6
\* SpecSelect: the same, for the specification that tries every accuracy.
MaxSelectFree == 4
\* SpecTree: the same, for the specification that keeps the whole tree.
MaxTreeFree == 4

(***************************************************************************)
(* Constants of the program.                                               *)
(***************************************************************************)
None == -1
EMPTY == " "
Symbols == {"X", "O"}
Marks == {EMPTY} \cup Symbols
Keys == 1..9
KeyOrder == <<7, 8, 9, 4, 5, 6, 1, 2, 3>>
CELLS == 9
BASE_SCORE == 10
ROUND_DIGITS == 7
MIN_LIMIT == 2

VICTORY_CONDITIONS ==
    << <<1, 2, 3>>, <<1, 4, 7>>,
       <<1, 5, 9>>, <<2, 5, 8>>,
       <<3, 5, 7>>, <<3, 6, 9>>,
       <<4, 5, 6>>, <<7, 8, 9>> >>

RECURSIVE Pow10(_)
Pow10(n) == IF n <= 0 THEN 1 ELSE 10 * Pow10(n - 1)

\* One unit of the model's scores is 10^-ROUND_DIGITS.
ScoreUnits == Pow10(ROUND_DIGITS)

\* The accuracies tried: fractions with a power of two as denominator.
Frac(n, d) == [num |-> n, den |-> d]
Accuracies ==
    {Frac(-1, 2), Frac(0, 1), Frac(1, 4), Frac(1, 2), Frac(3, 4), Frac(1, 1), Frac(3, 2)}
ShallowAccuracies == {Frac(0, 1), Frac(1, 4), Frac(1, 2)}
SelectAccuracies == {Frac(0, 1), Frac(3, 4), Frac(1, 1), Frac(3, 2)}

\* math.ceil(n * a) for an integer n and the fraction a.
CeilTimes(n, a) == -((-(n * a.num)) \div a.den)

Boards == [Keys -> Marks]
EmptyBoard == [k \in Keys |-> EMPTY]

\* [k for k, v in board.items() if not v.strip()], in the board's key order.
available(b) == SelectSeq(KeyOrder, LAMBDA k : b[k] = EMPTY)
FreeCells(b) == {k \in Keys : b[k] = EMPTY}
MarkCount(b) == Cardinality({k \in Keys : b[k] # EMPTY})

(***************************************************************************)
(* __get_opponent_symbol                                                   *)
(***************************************************************************)
get_opponent_symbol(agent) == IF agent = "X" THEN "O" ELSE "X"

(***************************************************************************)
(* __check_victory: the mark of the first completed line in the order of   *)
(* VICTORY_CONDITIONS with the score 10, or (None, 0).                     *)
(***************************************************************************)
RECURSIVE victory_from(_, _)
victory_from(b, i) ==
    IF i > Len(VICTORY_CONDITIONS) THEN [victory |-> "None", score |-> 0]
    ELSE LET line == VICTORY_CONDITIONS[i] IN
         IF b[line[1]] = b[line[2]] /\ b[line[2]] = b[line[3]] /\ b[line[3]] # " "
         THEN [victory |-> b[line[1]], score |-> BASE_SCORE]
         ELSE victory_from(b, i + 1)

\* Faulty variant: the scan starts at the second line.
check_victory_from_second(b) == victory_from(b, 2)

check_victory(b) == victory_from(b, 1)

(***************************************************************************)
(* __is_initial_move                                                       *)
(***************************************************************************)
\* Faulty variant: <= in place of <.
is_initial_move_inclusive(b, move) ==
    CELLS - Cardinality({k \in Keys : b[k] = " "}) <= move

is_initial_move(b, move) ==
    CELLS - Cardinality({k \in Keys : b[k] = " "}) < move

(***************************************************************************)
(* __update_branch_depths: the new (maximum_branch_depth,                  *)
(* limit_branch_depth).                                                    *)
(***************************************************************************)
\* Faulty variant: accuracy >= 1, in place of > 1, takes the unfloored maximum.
update_branch_depths_inclusive(b, acc) ==
    LET maximum == Len(available(b))
        limit == IF acc.num <= 0 THEN MIN_LIMIT
                 ELSE IF acc.num >= acc.den THEN maximum
                 ELSE LET c == CeilTimes(maximum, acc) IN
                      IF c < MIN_LIMIT THEN MIN_LIMIT ELSE c
    IN [maximum_branch_depth |-> maximum, limit_branch_depth |-> limit]

update_branch_depths(b, acc) ==
    LET maximum == Len(available(b))
        limit == IF acc.num <= 0 THEN MIN_LIMIT
                 ELSE IF acc.num > acc.den THEN maximum
                 ELSE LET c == CeilTimes(maximum, acc) IN
                      IF c < MIN_LIMIT THEN MIN_LIMIT ELSE c
    IN [maximum_branch_depth |-> maximum, limit_branch_depth |-> limit]

(***************************************************************************)
(* __get_possibility_tree.  The result maps each available play to its     *)
(* PlayNode [agent_turn, score, branch]; the empty dict is << >>.  Every   *)
(* play is tried on a copy of the board.  limit is                         *)
(* self.limit_branch_depth, agent and opponent the two symbols of self.    *)
(* node_score is the score of a node: the score of __check_victory,        *)
(* divided by 10**(branch_level-1) for the agent's victory and by          *)
(* -(10**(branch_level-1)) for the opponent's, branch_level being the      *)
(* incremented level.                                                      *)
(***************************************************************************)
\* Faulty variant: the opponent's victory is not negated.
node_score_unsigned(won, branch_level, agent) ==
    IF won.victory = "None" THEN won.score * ScoreUnits
    ELSE (won.score * ScoreUnits) \div Pow10(branch_level - 1)

\* Faulty variant: the score does not decay with the depth.
node_score_flat(won, branch_level, agent) ==
    IF won.victory = "None" THEN won.score * ScoreUnits
    ELSE IF won.victory = agent
         THEN won.score * ScoreUnits
         ELSE -(won.score * ScoreUnits)

node_score(won, branch_level, agent) ==
    IF won.victory = "None" THEN won.score * ScoreUnits
    ELSE IF won.victory = agent
         THEN (won.score * ScoreUnits) \div Pow10(branch_level - 1)
         ELSE -((won.score * ScoreUnits) \div Pow10(branch_level - 1))

\* Faulty variant: the depth limit is tested before the level is incremented.
RECURSIVE get_possibility_tree_late_cut(_, _, _, _, _, _)
get_possibility_tree_late_cut(b, agent_turn, branch_level, limit, agent, opponent) ==
    LET available_plays == FreeCells(b) IN
    IF available_plays = {} THEN << >>
    ELSE IF branch_level > limit THEN << >>
    ELSE [play \in available_plays |->
            LET updated_board == [b EXCEPT ![play] = IF agent_turn THEN agent ELSE opponent]
                won == check_victory(updated_board)
            IN [agent_turn |-> agent_turn,
                score |-> node_score(won, branch_level + 1, agent),
                branch |-> IF won.victory = "None"
                           THEN get_possibility_tree_late_cut(updated_board, ~agent_turn,
                                                              branch_level + 1, limit,
                                                              agent, opponent)
                           ELSE << >>]]

RECURSIVE get_possibility_tree(_, _, _, _, _, _)
get_possibility_tree(b, agent_turn, branch_level, limit, agent, opponent) ==
    LET available_plays == FreeCells(b) IN
    IF available_plays = {} THEN << >>
    ELSE IF branch_level + 1 > limit THEN << >>
    ELSE [play \in available_plays |->
            LET updated_board == [b EXCEPT ![play] = IF agent_turn THEN agent ELSE opponent]
                won == check_victory(updated_board)
            IN [agent_turn |-> agent_turn,
                score |-> node_score(won, branch_level + 1, agent),
                branch |-> IF won.victory = "None"
                           THEN get_possibility_tree(updated_board, ~agent_turn,
                                                     branch_level + 1, limit, agent, opponent)
                           ELSE << >>]]

(***************************************************************************)
(* __evaluate_moves: the running sum branch_score is threaded through the  *)
(* traversal, in the dict's order.  Python computes the running sum        *)
(* eagerly; the test of branch_score makes TLC do so too.                  *)
(***************************************************************************)
RECURSIVE evaluate_from(_, _, _)
evaluate_from(moves, i, branch_score) ==
    IF i > Len(KeyOrder) \/ branch_score \notin Int THEN branch_score
    ELSE LET k == KeyOrder[i] IN
         IF k \notin DOMAIN moves THEN evaluate_from(moves, i + 1, branch_score)
         ELSE LET v == moves[k]
                  added == branch_score + v.score
              IN evaluate_from(moves, i + 1,
                               IF DOMAIN v.branch # {}
                               THEN evaluate_from(v.branch, 1, added)
                               ELSE added)

\* Faulty variant: the nodes below the first level are not added.
RECURSIVE evaluate_first_level(_, _, _)
evaluate_first_level(moves, i, branch_score) ==
    IF i > Len(KeyOrder) THEN branch_score
    ELSE LET k == KeyOrder[i] IN
         evaluate_first_level(moves, i + 1,
                              IF k \in DOMAIN moves THEN branch_score + moves[k].score
                              ELSE branch_score)

evaluate_moves_shallow(moves, branch_score) == evaluate_first_level(moves, 1, branch_score)

evaluate_moves(moves, branch_score) == evaluate_from(moves, 1, branch_score)

(***************************************************************************)
(* sorted(best_moves, key=branch_score, reverse=True): Python's sort is    *)
(* stable, also when reversed, so an entry goes behind every entry whose   *)
(* score is at least its own.                                              *)
(***************************************************************************)
\* Faulty variant: the sort is ascending (reverse=True left out).
insert_sorted_ascending(sorted_moves, x) ==
    LET n == Cardinality({i \in 1..Len(sorted_moves) :
                            sorted_moves[i].branch_score <= x.branch_score})
    IN SubSeq(sorted_moves, 1, n) \o <<x>> \o SubSeq(sorted_moves, n + 1, Len(sorted_moves))

insert_sorted(sorted_moves, x) ==
    LET n == Cardinality({i \in 1..Len(sorted_moves) :
                            sorted_moves[i].branch_score >= x.branch_score})
    IN SubSeq(sorted_moves, 1, n) \o <<x>> \o SubSeq(sorted_moves, n + 1, Len(sorted_moves))

RECURSIVE sorted_by_score(_)
sorted_by_score(moves) ==
    IF moves = << >> THEN << >>
    ELSE insert_sorted(sorted_by_score(SubSeq(moves, 1, Len(moves) - 1)), moves[Len(moves)])

(***************************************************************************)
(* The ranking of __get_agent_move: one entry per first-level move of the  *)
(* tree, in the tree's order, sorted by branch score.                      *)
(***************************************************************************)
RECURSIVE rank_from(_, _, _)
rank_from(possibility_tree, i, best_moves) ==
    IF i > Len(KeyOrder) THEN best_moves
    ELSE LET move == KeyOrder[i] IN
         IF move \notin DOMAIN possibility_tree
         THEN rank_from(possibility_tree, i + 1, best_moves)
         ELSE rank_from(possibility_tree, i + 1,
                        Append(best_moves,
                               [move |-> move,
                                branch_score |-> evaluate_moves(
                                    [k \in {move} |-> possibility_tree[k]], 0)]))

ranked_moves(possibility_tree) == sorted_by_score(rank_from(possibility_tree, 1, << >>))

\* [x.get('move') for x in best_moves if x.get('branch_score') == best_move_score]
best_scored(best_moves) ==
    LET best_move_score == best_moves[1].branch_score
        tied == SelectSeq(best_moves, LAMBDA x : x.branch_score = best_move_score)
    IN [i \in 1..Len(tied) |-> tied[i].move]

(***************************************************************************)
(* What an operation leaves in `last`.                                     *)
(***************************************************************************)
Done(op, before, outcome, value, phase, choices) ==
    [op |-> op, before |-> before, outcome |-> outcome, value |-> value,
     phase |-> phase, choices |-> choices]

Constructed == Done("construct", EmptyBoard, "none", None, "none", << >>)

(***************************************************************************)
(* __get_random_move: random.choice over the empty cells (IndexError on an *)
(* empty list), then the commit.                                           *)
(***************************************************************************)
get_random_move ==
    LET free == available(board) IN
    IF free = << >>
    THEN /\ last' = Done("get_move", board, "IndexError", None, "random", free)
         /\ UNCHANGED <<board, maximum_branch_depth, limit_branch_depth>>
    ELSE \E i \in 1..Len(free) :
            LET movement == free[i] IN
            /\ board' = [board EXCEPT ![movement] = agent_symbol]
            /\ last' = Done("get_move", board, "returned", movement, "random", free)
            /\ UNCHANGED <<maximum_branch_depth, limit_branch_depth>>

(***************************************************************************)
(* __get_agent_move: the depth limit, the tree, the ranking, the choice    *)
(* among the best scored moves, the commit.  best_moves[0] raises          *)
(* IndexError when the tree is empty.  agent_move_search is the part of    *)
(* the method before the random choice; it is evaluated once per call.     *)
(***************************************************************************)
agent_move_search(b, acc, agent, opponent) ==
    LET depths == update_branch_depths(b, acc)
        possibility_tree == get_possibility_tree(b, TRUE, 0, depths.limit_branch_depth,
                                                 agent, opponent)
        best_moves == ranked_moves(possibility_tree)
    IN [depths |-> depths,
        best_moves |-> best_moves,
        choices |-> IF best_moves = << >> THEN << >> ELSE best_scored(best_moves)]

\* Faulty variant: the tree is built on the stored board itself, not on copies, and
\* the plays it tried stay on the board.
get_agent_move_uncopied ==
    \E search \in {agent_move_search(board, accuracy, agent_symbol, opponent_symbol)} :
       /\ maximum_branch_depth' = search.depths.maximum_branch_depth
       /\ limit_branch_depth' = search.depths.limit_branch_depth
       /\ IF search.best_moves = << >>
          THEN /\ last' = Done("get_move", board, "IndexError", None, "search", << >>)
               /\ UNCHANGED board
          ELSE \E i \in 1..Len(search.choices) :
                  LET chosen_move == search.choices[i] IN
                  /\ board' = [k \in Keys |-> IF board[k] = EMPTY THEN agent_symbol
                                              ELSE board[k]]
                  /\ last' = Done("get_move", board, "returned", chosen_move, "search",
                                  search.choices)

get_agent_move ==
    \E search \in {agent_move_search(board, accuracy, agent_symbol, opponent_symbol)} :
       /\ maximum_branch_depth' = search.depths.maximum_branch_depth
       /\ limit_branch_depth' = search.depths.limit_branch_depth
       /\ IF search.best_moves = << >>
          THEN /\ last' = Done("get_move", board, "IndexError", None, "search", << >>)
               /\ UNCHANGED board
          ELSE \E i \in 1..Len(search.choices) :
                  LET chosen_move == search.choices[i] IN
                  /\ board' = [board EXCEPT ![chosen_move] = agent_symbol]
                  /\ last' = Done("get_move", board, "returned", chosen_move, "search",
                                  search.choices)

(***************************************************************************)
(* get_move                                                                *)
(***************************************************************************)
GetMove ==
    /\ IF (RANDOM_INITIAL_MOVES /\ is_initial_move(board, 2)) \/ is_initial_move(board, 1)
       THEN get_random_move
       ELSE get_agent_move
    /\ UNCHANGED <<agent_symbol, opponent_symbol, accuracy, RANDOM_INITIAL_MOVES>>

(***************************************************************************)
(* The opponent's placement: the caller writes the opponent's mark into an *)
(* empty cell of the dict that get_board hands out (the stored board       *)
(* itself).                                                                *)
(***************************************************************************)
OpponentMove(p) ==
    /\ board[p] = EMPTY
    /\ board' = [board EXCEPT ![p] = opponent_symbol]
    /\ last' = Done("opponent", board, "returned", p, "none", << >>)
    /\ UNCHANGED <<agent_symbol, opponent_symbol, accuracy, RANDOM_INITIAL_MOVES,
                   maximum_branch_depth, limit_branch_depth>>

(***************************************************************************)
(* The private methods, applied on their own.                              *)
(***************************************************************************)
UpdateBranchDepths ==
    LET depths == update_branch_depths(board, accuracy) IN
    /\ maximum_branch_depth' = depths.maximum_branch_depth
    /\ limit_branch_depth' = depths.limit_branch_depth
    /\ last' = Done("update_branch_depths", board, "returned", None, "none", << >>)
    /\ UNCHANGED <<board, agent_symbol, opponent_symbol, accuracy, RANDOM_INITIAL_MOVES>>

BuildTree ==
    /\ last' = Done("get_possibility_tree", board, "returned",
                    get_possibility_tree(board, TRUE, 0, limit_branch_depth,
                                         agent_symbol, opponent_symbol),
                    "none", << >>)
    /\ UNCHANGED <<board, agent_symbol, opponent_symbol, accuracy, RANDOM_INITIAL_MOVES,
                   maximum_branch_depth, limit_branch_depth>>

CheckVictory ==
    /\ last' = Done("check_victory", board, "returned", check_victory(board), "none", << >>)
    /\ UNCHANGED <<board, agent_symbol, opponent_symbol, accuracy, RANDOM_INITIAL_MOVES,
                   maximum_branch_depth, limit_branch_depth>>

(***************************************************************************)
(* __init__: the state after construction, for a given board, symbol,      *)
(* accuracy and flag.                                                      *)
(***************************************************************************)
construct(given_board, symbol, acc, flag) ==
    /\ board = given_board
    /\ agent_symbol = symbol
    /\ opponent_symbol = get_opponent_symbol(symbol)
    /\ accuracy = acc
    /\ RANDOM_INITIAL_MOVES = flag
    /\ maximum_branch_depth = None
    /\ limit_branch_depth = None
    /\ last = Constructed

HasLine(b) ==
    \E i \in 1..Len(VICTORY_CONDITIONS) :
        LET line == VICTORY_CONDITIONS[i] IN
        /\ b[line[1]] # EMPTY
        /\ b[line[2]] = b[line[1]]
        /\ b[line[3]] = b[line[1]]

One == Frac(1, 1)
OneAndHalf == Frac(3, 2)

(***************************************************************************)
(* Spec: a game from the empty board, get_move calls and opponent          *)
(* placements in any order, until the board holds MaxMarks marks.          *)
(***************************************************************************)
Init ==
    \E symbol \in Symbols, acc \in ShallowAccuracies, flag \in BOOLEAN :
        construct(EmptyBoard, symbol, acc, flag)

Next ==
    /\ MarkCount(board) < MaxMarks
    /\ \/ GetMove
       \/ \E p \in Keys : OpponentMove(p)

Spec == Init /\ [][Next]_vars

(***************************************************************************)
(* SpecSearch: one get_move call with accuracy 1 on any board without a    *)
(* completed line that has between 1 and MaxFree empty cells.              *)
(***************************************************************************)
SearchBoards ==
    {b \in Boards : ~HasLine(b) /\ Cardinality(FreeCells(b)) \in 1..MaxFree}

InitSearch ==
    \E b \in SearchBoards, symbol \in Symbols :
        construct(b, symbol, One, FALSE)

FirstCall ==
    /\ last.op = "construct"
    /\ GetMove

SpecSearch == InitSearch /\ [][FirstCall]_vars

(***************************************************************************)
(* SpecGame: one get_move call with accuracy 1 on any board of alternating *)
(* play (no completed line, the agent to move: it holds as many marks as   *)
(* the opponent, or one fewer) with between 1 and MaxGameFree empty cells. *)
(***************************************************************************)
CountOf(b, mark) == Cardinality({k \in Keys : b[k] = mark})

AgentToMove(b, agent) ==
    LET mine == CountOf(b, agent)
        theirs == CountOf(b, get_opponent_symbol(agent))
    IN mine = theirs \/ mine + 1 = theirs

GameBoards(agent) ==
    {b \in Boards : /\ ~HasLine(b)
                    /\ Cardinality(FreeCells(b)) \in 1..MaxGameFree
                    /\ AgentToMove(b, agent)}

InitGame ==
    \E symbol \in Symbols :
        \E b \in GameBoards(symbol) : construct(b, symbol, One, FALSE)

SpecGame == InitGame /\ [][FirstCall]_vars

(***************************************************************************)
(* SpecSelect: one get_move call, with accuracy 0, 3/4, 1 or 3/2, on any   *)
(* board with the agent to move (with or without a completed line) that    *)
(* has between 1 and MaxSelectFree empty cells.                            *)
(***************************************************************************)
SelectBoards(agent) ==
    {b \in Boards : Cardinality(FreeCells(b)) \in 1..MaxSelectFree /\ AgentToMove(b, agent)}

InitSelect ==
    \E symbol \in Symbols, acc \in SelectAccuracies :
        \E b \in SelectBoards(symbol) : construct(b, symbol, acc, FALSE)

SpecSelect == InitSelect /\ [][FirstCall]_vars

(***************************************************************************)
(* SpecFull: one get_move call on any board without an empty cell, with    *)
(* any accuracy, the flag on or off.                                       *)
(***************************************************************************)
FullBoards == [Keys -> Symbols]

InitFull ==
    \E b \in FullBoards, symbol \in Symbols, acc \in Accuracies, flag \in BOOLEAN :
        construct(b, symbol, acc, flag)

SpecFull == InitFull /\ [][FirstCall]_vars

(***************************************************************************)
(* SpecDepth: __update_branch_depths on any board, with any accuracy.      *)
(***************************************************************************)
InitDepth ==
    \E b \in Boards, acc \in Accuracies : construct(b, "X", acc, FALSE)

FirstUpdate ==
    /\ last.op = "construct"
    /\ UpdateBranchDepths

SpecDepth == InitDepth /\ [][FirstUpdate]_vars

(***************************************************************************)
(* SpecVictory: __check_victory on any board.                              *)
(***************************************************************************)
InitVictory ==
    \E b \in Boards : construct(b, "X", One, FALSE)

FirstCheck ==
    /\ last.op = "construct"
    /\ CheckVictory

SpecVictory == InitVictory /\ [][FirstCheck]_vars

(***************************************************************************)
(* SpecTree: the first two steps of __get_agent_move, the depth limit and  *)
(* then the tree, with any accuracy, on any board without a completed line *)
(* with the agent to move that has between 1 and MaxTreeFree empty cells.  *)
(***************************************************************************)
TreeBoards(agent) ==
    {b \in Boards : /\ ~HasLine(b)
                    /\ Cardinality(FreeCells(b)) \in 1..MaxTreeFree
                    /\ AgentToMove(b, agent)}

InitTree ==
    \E symbol \in Symbols, acc \in Accuracies :
        \E b \in TreeBoards(symbol) : construct(b, symbol, acc, FALSE)

TreeAfterUpdate ==
    /\ last.op = "update_branch_depths"
    /\ BuildTree

NextTree == FirstUpdate \/ TreeAfterUpdate

SpecTree == InitTree /\ [][NextTree]_vars

(***************************************************************************)
(* The claims.                                                             *)
(***************************************************************************)
Range(s) == {s[i] : i \in 1..Len(s)}

GetMoveDone == last.op = "get_move"

\* C1: a get_move call on a board with an empty cell returns a key that was
\* empty before the call, sets exactly that cell of the stored board to the
\* agent's mark and leaves the other cells as they were: no occupied cell is
\* overwritten and nothing the search tried stays on the board.
C1_GetMoveFrame ==
    (GetMoveDone /\ FreeCells(last.before) # {}) =>
        /\ last.outcome = "returned"
        /\ last.value \in FreeCells(last.before)
        /\ board = [k \in Keys |-> IF k = last.value THEN agent_symbol ELSE last.before[k]]

\* A searched move that follows an opponent's placement and a move of the agent.
C1_Witness ==
    /\ GetMoveDone
    /\ last.phase = "search"
    /\ last.outcome = "returned"
    /\ CountOf(board, agent_symbol) = 2
    /\ CountOf(board, opponent_symbol) = 1

\* C6: get_move takes the random path exactly when the board holds fewer
\* marks than the threshold, 2 with RANDOM_INITIAL_MOVES on and 1 with it off;
\* on that path the choice is among all the empty cells, each of which can be
\* returned, and the depth limit and the tree are not computed; otherwise the
\* move comes from the tree search.
OpeningThreshold == IF RANDOM_INITIAL_MOVES THEN 2 ELSE 1

C6_OpeningThreshold ==
    /\ GetMoveDone =>
        /\ last.phase \in {"random", "search"}
        /\ (last.phase = "random") <=> (MarkCount(last.before) < OpeningThreshold)
        /\ last.phase = "random" =>
              /\ Range(last.choices) = FreeCells(last.before)
              /\ last.value \in FreeCells(last.before)
        /\ last.phase = "search" =>
              /\ limit_branch_depth = update_branch_depths(last.before, accuracy).limit_branch_depth
              /\ last.value \in Range(last.choices)
    /\ (MarkCount(board) < OpeningThreshold /\ MarkCount(board) < MaxMarks) =>
        /\ \A p \in FreeCells(board) : ENABLED (GetMove /\ last'.value = p)
        /\ ~ ENABLED (GetMove /\ limit_branch_depth' # limit_branch_depth)

\* The random path taken on a board that already holds the opponent's mark.
C6_Witness ==
    /\ GetMoveDone
    /\ last.phase = "random"
    /\ MarkCount(last.before) = 1

\* C2: on a board without an empty cell get_move ends with a defined result,
\* not with an exception, and leaves the stored board as it was.
C2_FullBoardDefined ==
    (GetMoveDone /\ FreeCells(last.before) = {}) =>
        /\ last.outcome # "IndexError"
        /\ board = last.before

(***************************************************************************)
(* Winning and safe cells, from the lines alone.                           *)
(***************************************************************************)
Completes(b, p, mark) ==
    \E i \in 1..Len(VICTORY_CONDITIONS) :
        LET line == VICTORY_CONDITIONS[i] IN
        /\ p \in Range(line)
        /\ \A j \in 1..3 : line[j] # p => b[line[j]] = mark

WinningCells(b, mark) == {p \in FreeCells(b) : Completes(b, p, mark)}

SafeCells(b, agent, opponent) ==
    {p \in FreeCells(b) : WinningCells([b EXCEPT ![p] = agent], opponent) = {}}

SearchedWithAccuracyOne ==
    /\ GetMoveDone
    /\ last.phase = "search"
    /\ accuracy = One
    /\ ~HasLine(last.before)

\* C3: with accuracy 1, on a board without a completed line on which the agent
\* can complete a line at once, every move the search can return completes a
\* line.
C3_ImmediateWin ==
    (SearchedWithAccuracyOne /\ WinningCells(last.before, agent_symbol) # {}) =>
        /\ last.outcome = "returned"
        /\ Range(last.choices) \subseteq WinningCells(last.before, agent_symbol)
        /\ last.value \in WinningCells(last.before, agent_symbol)

\* The agent wins at once where it could also have blocked the opponent's line.
C3_Witness ==
    /\ SearchedWithAccuracyOne
    /\ last.value \in WinningCells(last.before, agent_symbol)
    /\ WinningCells(last.before, opponent_symbol) # {}
    /\ WinningCells(last.before, opponent_symbol) \cap WinningCells(last.before, agent_symbol) = {}
    /\ Cardinality(FreeCells(last.before)) = MaxFree

\* C4: with accuracy 1, on a board of alternating play without a completed
\* line, when the agent cannot win at once and some cell leaves the opponent
\* no immediate win, every move the search can return is such a cell.
C4_NoImmediateLoss ==
    (/\ SearchedWithAccuracyOne
     /\ AgentToMove(last.before, agent_symbol)
     /\ WinningCells(last.before, agent_symbol) = {}
     /\ SafeCells(last.before, agent_symbol, opponent_symbol) # {}) =>
        /\ last.outcome = "returned"
        /\ Range(last.choices) \subseteq SafeCells(last.before, agent_symbol, opponent_symbol)
        /\ last.value \in SafeCells(last.before, agent_symbol, opponent_symbol)

\* The agent blocks: some cells would have let the opponent win at once.
C4_Witness ==
    /\ SearchedWithAccuracyOne
    /\ AgentToMove(last.before, agent_symbol)
    /\ WinningCells(last.before, agent_symbol) = {}
    /\ last.value \in SafeCells(last.before, agent_symbol, opponent_symbol)
    /\ FreeCells(last.before) \ SafeCells(last.before, agent_symbol, opponent_symbol) # {}
    /\ Cardinality(FreeCells(last.before)) = MaxGameFree

(***************************************************************************)
(* The branch score of a first-level move, as the sum of the scores of its *)
(* node and of every node below it.                                        *)
(***************************************************************************)
RECURSIVE SumOfScores(_, _)
SumOfScores(t, k) ==
    IF k > CELLS THEN 0
    ELSE (IF k \in DOMAIN t
          THEN LET node == t[k] IN node.score + SumOfScores(node.branch, 1)
          ELSE 0)
         + SumOfScores(t, k + 1)

BranchScores(b, limit, agent, opponent) ==
    LET tree == get_possibility_tree(b, TRUE, 0, limit, agent, opponent) IN
    {<<m, tree[m].score + SumOfScores(tree[m].branch, 1)>> : m \in DOMAIN tree}

\* C5: on a board with an empty cell the moves the search chooses among are
\* exactly the empty cells whose branch score is the greatest, the branch
\* score being the plain sum of the scores of the move's node and of all the
\* nodes below it; the move returned is one of them, whatever its place in the
\* board's key order.
C5_BestScoredMoves ==
    (GetMoveDone /\ last.phase = "search" /\ FreeCells(last.before) # {}) =>
        \A scored \in {BranchScores(last.before, limit_branch_depth,
                                    agent_symbol, opponent_symbol)} :
            LET best == {x[1] : x \in {y \in scored : \A z \in scored : y[2] >= z[2]}} IN
            /\ last.outcome = "returned"
            /\ {x[1] : x \in scored} = FreeCells(last.before)
            /\ Range(last.choices) = best
            /\ Len(last.choices) = Cardinality(best)
            /\ last.value \in best

\* Of several moves tied for the best score, not all of the moves, the one
\* that comes last in the key order is returned.
C5_Witness ==
    /\ GetMoveDone
    /\ last.phase = "search"
    /\ last.outcome = "returned"
    /\ Len(last.choices) >= 2
    /\ Len(last.choices) < Cardinality(FreeCells(last.before))
    /\ last.value = last.choices[Len(last.choices)]
    /\ accuracy = Frac(3, 4)

DepthsUpdated == last.op = "update_branch_depths"

FreeCount(b) == Cardinality(FreeCells(b))

\* C7 as stated: with accuracy 1 the depth limit is the number of free cells,
\* whatever that number, and with accuracy 1.5 the limit is the one computed
\* with accuracy 1.
C7_LimitIsFreeCount ==
    DepthsUpdated =>
        /\ accuracy = One => limit_branch_depth = FreeCount(board)
        /\ accuracy = OneAndHalf =>
              limit_branch_depth = update_branch_depths(board, One).limit_branch_depth

\* C7 as amended: with accuracy 1 the depth limit is the number of free cells
\* when there are at least 2 of them and 2 otherwise; with accuracy 1.5 it is
\* always the number of free cells, so the two limits agree exactly on the
\* boards with at least 2 free cells.
C7_LimitFlooredAtTwo ==
    DepthsUpdated =>
        /\ maximum_branch_depth = FreeCount(board)
        /\ accuracy = One =>
              limit_branch_depth = IF FreeCount(board) >= 2 THEN FreeCount(board) ELSE 2
        /\ accuracy = OneAndHalf =>
              /\ limit_branch_depth = FreeCount(board)
              /\ (limit_branch_depth = update_branch_depths(board, One).limit_branch_depth)
                    <=> FreeCount(board) >= 2

\* The limit computed with accuracy 1 on a board with a single free cell.
C7_Witness ==
    /\ DepthsUpdated
    /\ accuracy = One
    /\ FreeCount(board) = 1
    /\ limit_branch_depth = 2

(***************************************************************************)
(* The completed lines of a board.                                         *)
(***************************************************************************)
Complete(b, i) ==
    LET line == VICTORY_CONDITIONS[i] IN
    /\ b[line[1]] \in Symbols
    /\ b[line[2]] = b[line[1]]
    /\ b[line[3]] = b[line[1]]

LineMark(b, i) == b[VICTORY_CONDITIONS[i][1]]

CompleteLines(b) == {i \in 1..Len(VICTORY_CONDITIONS) : Complete(b, i)}

VictoryChecked == last.op = "check_victory"

\* C8 as stated: for each of the 8 lines, when its three cells hold the same
\* mark m, whatever the other cells hold, the winner is m with score 10; with
\* no completed line there is no winner and the score is 0.
C8_AnyCompleteLineWins ==
    VictoryChecked =>
        /\ \A i \in CompleteLines(board) :
              last.value = [victory |-> LineMark(board, i), score |-> 10]
        /\ CompleteLines(board) = {} => last.value = [victory |-> "None", score |-> 0]

\* C8 as amended: when some line is complete, the winner is the mark of the
\* first complete line in the order of VICTORY_CONDITIONS, with score 10; it
\* is the mark m of a given complete line whenever no complete line holds the
\* other mark; with no completed line there is no winner and the score is 0.
C8_FirstCompleteLineWins ==
    VictoryChecked =>
        /\ \A i \in CompleteLines(board) :
              /\ last.value.score = 10
              /\ (\A j \in CompleteLines(board) : j >= i) =>
                    last.value.victory = LineMark(board, i)
              /\ (\A j \in CompleteLines(board) : LineMark(board, j) = LineMark(board, i)) =>
                    last.value.victory = LineMark(board, i)
        /\ CompleteLines(board) = {} => last.value = [victory |-> "None", score |-> 0]

\* A board with a complete line of each mark: the winner is the mark of the
\* line that comes first.
C8_Witness ==
    /\ VictoryChecked
    /\ \E i, j \in CompleteLines(board) :
          /\ i < j
          /\ LineMark(board, i) # LineMark(board, j)
          /\ last.value.victory = LineMark(board, i)

(***************************************************************************)
(* The tree, node by node.  t holds the nodes of depth d + 1 that follow   *)
(* the position b; k is the number of empty cells of the root board and    *)
(* stop the smaller of k and the depth limit.                              *)
(***************************************************************************)
TreeBuilt == last.op = "get_possibility_tree"

Mover(depth, agent, opponent) == IF depth % 2 = 1 THEN agent ELSE opponent

Smaller(a, b) == IF a < b THEN a ELSE b

RECURSIVE ShapeHolds(_, _, _, _, _, _, _)
ShapeHolds(t, b, d, k, stop, agent, opponent) ==
    \A p \in DOMAIN t :
        LET depth == d + 1
            after == [b EXCEPT ![p] = Mover(depth, agent, opponent)]
            children == DOMAIN t[p].branch
        IN /\ p \in FreeCells(b)
           /\ depth <= stop
           /\ Cardinality(children) \in {0, k - depth}
           /\ (children = {}) <=> (HasLine(after) \/ depth = stop)
           /\ ShapeHolds(t[p].branch, after, depth, k, stop, agent, opponent)

\* C9: the tree of a board with k >= 1 empty cells and no completed line,
\* built with the depth limit L >= 1, has one node per empty cell at the root
\* and no node deeper than min(k, L); a node of depth d has k - d children or
\* none, and none exactly when its move completed a line or d = min(k, L).
C9_TreeShape ==
    TreeBuilt =>
        /\ limit_branch_depth >= 1
        /\ DOMAIN last.value = FreeCells(board)
        /\ ShapeHolds(last.value, board, 0, FreeCount(board),
                      Smaller(FreeCount(board), limit_branch_depth),
                      agent_symbol, opponent_symbol)

\* A tree cut by the depth limit, with a first-level move that completes a line.
C9_Witness ==
    /\ TreeBuilt
    /\ FreeCount(board) = MaxTreeFree
    /\ limit_branch_depth = MaxTreeFree - 1
    /\ \E p, q \in DOMAIN last.value :
          /\ last.value[p].branch = << >>
          /\ \E r \in DOMAIN last.value[q].branch :
                \E u \in DOMAIN last.value[q].branch[r].branch :
                    last.value[q].branch[r].branch[u].branch = << >>

LineOf(b, mark) == \E i \in CompleteLines(b) : LineMark(b, i) = mark

RECURSIVE ScoresHold(_, _, _, _, _)
ScoresHold(t, b, d, agent, opponent) ==
    \A p \in DOMAIN t :
        LET depth == d + 1
            after == [b EXCEPT ![p] = Mover(depth, agent, opponent)]
            node == t[p]
            decayed == (10 * ScoreUnits) \div Pow10(depth - 1)
        IN /\ node.agent_turn = (depth % 2 = 1)
           /\ node.score = IF LineOf(after, agent) THEN decayed
                           ELSE IF LineOf(after, opponent) THEN -decayed
                           ELSE 0
           /\ decayed * Pow10(depth - 1) = 10 * ScoreUnits
           /\ node.score > 0 => depth % 2 = 1
           /\ node.score < 0 => depth % 2 = 0
           /\ node.score # 0 => node.branch = << >>
           /\ ScoresHold(node.branch, after, depth, agent, opponent)

\* C10: in the tree of a board without a completed line, the agent to move
\* first, a node of depth d is the agent's placement when d is odd and the
\* opponent's when d is even; its score is 10 / 10^(d-1) when the placement
\* completes a line for the agent, -10 / 10^(d-1) when it completes one for
\* the opponent, and 0 otherwise; so positive scores are at odd depths,
\* negative ones at even depths, and a node with a score other than 0 has an
\* empty branch.
C10_NodeScores ==
    TreeBuilt => ScoresHold(last.value, board, 0, agent_symbol, opponent_symbol)

\* A tree with an opponent's win at depth 2 and an agent's win at depth 3.
C10_Witness ==
    /\ TreeBuilt
    /\ \E p \in DOMAIN last.value :
          \E q \in DOMAIN last.value[p].branch :
              /\ last.value[p].branch[q].score = -ScoreUnits
              /\ ~last.value[p].branch[q].agent_turn
    /\ \E p \in DOMAIN last.value :
          \E q \in DOMAIN last.value[p].branch :
              \E r \in DOMAIN last.value[p].branch[q].branch :
                  /\ last.value[p].branch[q].branch[r].score * 10 = ScoreUnits
                  /\ last.value[p].branch[q].branch[r].agent_turn

====
